---------------------------- MODULE Spec2Model ----------------------------
(***************************************************************************)
(* PDF Studio Pro: the page-range language (_parse_segments) and the       *)
(* three operations built on the PDF codec (merge_pdfs, split_pdf,         *)
(* extract_pages) of pdf_studio_pro_streamlit.py.                          *)
(*                                                                         *)
(* A string is a sequence of characters, each written as a TLA+ string;    *)
(* "sup2" is the one character SUPERSCRIPT TWO (U+00B2).  A page object of *)
(* the codec is the pair <<file, n>>: page n (1-based) of uploaded file    *)
(* number `file`.  A written document is the sequence of the page objects  *)
(* added to its PdfWriter.                                                 *)
(***************************************************************************)
EXTENDS Integers, Sequences, FiniteSets, TLC

VARIABLES spec_text, total_pages, original_filename, uploaded_files, pc, result

vars == <<spec_text, total_pages, original_filename, uploaded_files, pc, result>>

---------------------------------------------------------------------------
(* Bounds of the model *)

\* longest text typed into a text input
MaxLen == 4
\* most pages in an uploaded document
MaxPages == 2
\* most files handed to merge_pdfs
MaxFiles == 4

---------------------------------------------------------------------------
(* Characters and strings *)

\* the characters int() reads as digits
DecimalDigits == {"0", "1", "2", "3", "4", "5", "6", "7", "8", "9"}

\* characters for which str.isdigit() is true: the decimal digits and the
\* digit characters that are not decimal, of which the model has U+00B2
Digits == DecimalDigits \cup {"sup2"}

\* the characters str.strip() removes (those a text input can hold)
Whitespace == {" ", "\t", "\n"}

\* the characters the model types into a text input
Alphabet == {"0", "1", "2", "sup2", "-", ",", " ", "\t"}

Strings(n) == UNION {[1..k -> Alphabet] : k \in 0..n}

\* names of the uploaded file
Filenames ==
    { <<"a">>, <<"a", ".", "a">>, <<".", "a">>, <<"a", ".">>,
      <<"a", ".", "a", ".", "a">> }

DigitValue(c) ==
    CASE c = "0" -> 0 [] c = "1" -> 1 [] c = "2" -> 2 [] c = "3" -> 3
      [] c = "4" -> 4 [] c = "5" -> 5 [] c = "6" -> 6 [] c = "7" -> 7
      [] c = "8" -> 8 [] c = "9" -> 9

DigitChar(d) ==
    CASE d = 0 -> "0" [] d = 1 -> "1" [] d = 2 -> "2" [] d = 3 -> "3"
      [] d = 4 -> "4" [] d = 5 -> "5" [] d = 6 -> "6" [] d = 7 -> "7"
      [] d = 8 -> "8" [] d = 9 -> "9"

\* str.isdigit(): non-empty and every character a digit character
isdigit(s) == Len(s) > 0 /\ \A i \in 1..Len(s) : s[i] \in Digits

\* whether int(s) raises ValueError on a string s with s.isdigit()
int_raises(s) == \E i \in 1..Len(s) : s[i] \notin DecimalDigits

\* int(s) of a string of decimal digits
RECURSIVE int(_)
int(s) ==
    IF Len(s) = 0 THEN 0
    ELSE 10 * int(SubSeq(s, 1, Len(s) - 1)) + DigitValue(s[Len(s)])

\* str(n) of n >= 0, as an f-string formats it
RECURSIVE str(_)
str(n) ==
    IF n < 10 THEN <<DigitChar(n)>>
    ELSE str(n \div 10) \o <<DigitChar(n % 10)>>

\* s.replace(old, "") for a one-character old
replace(s, old) == SelectSeq(s, LAMBDA c : c # old)

\* s.split(sep): the pieces between the separators, empty pieces included
RECURSIVE split(_, _)
split(s, sep) ==
    IF \A i \in 1..Len(s) : s[i] # sep THEN <<s>>
    ELSE LET k == CHOOSE i \in 1..Len(s) :
                     s[i] = sep /\ \A j \in 1..(i - 1) : s[j] # sep
         IN  <<SubSeq(s, 1, k - 1)>> \o split(SubSeq(s, k + 1, Len(s)), sep)

\* s.split(sep, 1) of a string that contains sep: cut at the first sep
split1(s, sep) ==
    LET k == CHOOSE i \in 1..Len(s) :
                 s[i] = sep /\ \A j \in 1..(i - 1) : s[j] # sep
    IN  <<SubSeq(s, 1, k - 1), SubSeq(s, k + 1, Len(s))>>

\* s.rsplit(sep, 1)[0] of a string that contains sep: what precedes the last sep
rsplit1head(s, sep) ==
    LET k == CHOOSE i \in 1..Len(s) :
                 s[i] = sep /\ \A j \in (i + 1)..Len(s) : s[j] # sep
    IN  SubSeq(s, 1, k - 1)

\* s.strip(): leading and trailing whitespace removed
strip(s) ==
    LET inner == {i \in 1..Len(s) : s[i] \notin Whitespace}
    IN  IF inner = {} THEN <<>>
        ELSE LET lo == CHOOSE i \in inner : \A j \in inner : i <= j
                 hi == CHOOSE i \in inner : \A j \in inner : j <= i
             IN  SubSeq(s, lo, hi)

contains(s, c) == \E i \in 1..Len(s) : s[i] = c

---------------------------------------------------------------------------
(* Outcomes of a call *)

None == <<"None">>

Returned(v) == [raised |-> FALSE, error |-> "", token |-> <<>>, value |-> v]

Raised(e, t) == [raised |-> TRUE, error |-> e, token |-> t, value |-> None]

\* the ValueError messages of the code, without the token they embed
EmptySpec == "No ranges provided."
MalformedRange == "Invalid range"
MalformedPageNumber == "Invalid page number"
InvalidSegment == "Invalid segment"
OutOfBounds == "exceeds total pages"
PageOutOfBounds == "out of bounds"
\* the ValueError of int() itself, which embeds the string it was given
InvalidLiteral == "invalid literal for int() with base 10"

---------------------------------------------------------------------------
(* _parse_segments *)

\* q without the later repeats of its elements
RECURSIVE DropRepeats(_)
DropRepeats(q) ==
    IF Len(q) = 0 THEN <<>>
    ELSE LET front == DropRepeats(SubSeq(q, 1, Len(q) - 1))
         IN  IF \E i \in 1..(Len(q) - 1) : q[i] = q[Len(q)] THEN front
             ELSE Append(front, q[Len(q)])

\* variant of Tokens: repeated tokens collapsed, as by dict.fromkeys(tokens)
Tokens_Deduplicated(text) ==
    DropRepeats(SelectSeq(split(text, ","), LAMBDA t : Len(t) > 0))

\* tokens = [t for t in spec_text.split(",") if t]
Tokens(text) == SelectSeq(split(text, ","), LAMBDA t : Len(t) > 0)

\* variant of ParseToken: the test against total_pages (line 85) left out
ParseToken_NoUpperBound(t, total) ==
    LET malformed ==
            IF contains(t, "-")
            THEN LET ab == split1(t, "-")
                 IN  ~isdigit(ab[1]) \/ ~isdigit(ab[2])
            ELSE ~isdigit(t)
        start == IF contains(t, "-") THEN int(split1(t, "-")[1]) ELSE int(t)
        end   == IF contains(t, "-") THEN int(split1(t, "-")[2]) ELSE int(t)
    IN  IF malformed
        THEN Raised(IF contains(t, "-") THEN MalformedRange
                    ELSE MalformedPageNumber, t)
        ELSE IF contains(t, "-") /\ int_raises(split1(t, "-")[1])
        THEN Raised(InvalidLiteral, split1(t, "-")[1])
        ELSE IF contains(t, "-") /\ int_raises(split1(t, "-")[2])
        THEN Raised(InvalidLiteral, split1(t, "-")[2])
        ELSE IF ~contains(t, "-") /\ int_raises(t)
        THEN Raised(InvalidLiteral, t)
        ELSE IF start < 1 \/ end < 1 \/ end < start
        THEN Raised(InvalidSegment, t)
        ELSE Returned(<<start, end>>)

\* one pass of the body of `for t in tokens`: a segment or the error raised
ParseToken(t, total) ==
    LET malformed ==
            IF contains(t, "-")
            THEN LET ab == split1(t, "-")
                 IN  ~isdigit(ab[1]) \/ ~isdigit(ab[2])
            ELSE ~isdigit(t)
        start == IF contains(t, "-") THEN int(split1(t, "-")[1]) ELSE int(t)
        end   == IF contains(t, "-") THEN int(split1(t, "-")[2]) ELSE int(t)
    IN  IF malformed
        THEN Raised(IF contains(t, "-") THEN MalformedRange
                    ELSE MalformedPageNumber, t)
        ELSE IF contains(t, "-") /\ int_raises(split1(t, "-")[1])
        THEN Raised(InvalidLiteral, split1(t, "-")[1])
        ELSE IF contains(t, "-") /\ int_raises(split1(t, "-")[2])
        THEN Raised(InvalidLiteral, split1(t, "-")[2])
        ELSE IF ~contains(t, "-") /\ int_raises(t)
        THEN Raised(InvalidLiteral, t)
        ELSE IF start < 1 \/ end < 1 \/ end < start
        THEN Raised(InvalidSegment, t)
        ELSE IF end > total
        THEN Raised(OutOfBounds, t)
        ELSE Returned(<<start, end>>)

\* the loop over tokens from index i on, segments being the list so far
RECURSIVE ParseLoop(_, _, _, _)
ParseLoop(tokens, i, segments, total) ==
    IF i > Len(tokens) THEN Returned(segments)
    ELSE LET r == ParseToken(tokens[i], total)
         IN  IF r.raised THEN r
             ELSE ParseLoop(tokens, i + 1, Append(segments, r.value), total)

_parse_segments(text, total) ==
    LET stripped == replace(text, " ")
    IN  IF Len(stripped) = 0 THEN Raised(EmptySpec, <<>>)
        ELSE ParseLoop(Tokens(stripped), 1, <<>>, total)

---------------------------------------------------------------------------
(* The codec *)

\* PdfReader(file).pages of uploaded file number f holding n pages
ReaderPages(f, n) == [i \in 1..n |-> <<f, i>>]

\* the pages a PdfWriter holds after add_page of pages[lo], ..., pages[hi]
AddPages(pages, lo, hi) == [i \in 1..(hi - lo + 1) |-> pages[lo + i - 1]]

---------------------------------------------------------------------------
(* merge_pdfs *)

\* variant of MergeLoop: each file's pages put in front of those written so far
RECURSIVE MergeLoop_Prepend(_, _, _)
MergeLoop_Prepend(files, f, writer) ==
    IF f > Len(files) THEN writer
    ELSE MergeLoop_Prepend(files, f + 1, ReaderPages(f, files[f]) \o writer)

\* files is the list of page counts of the uploaded files, in upload order
RECURSIVE MergeLoop(_, _, _)
MergeLoop(files, f, writer) ==
    IF f > Len(files) THEN writer
    ELSE MergeLoop(files, f + 1, writer \o ReaderPages(f, files[f]))

merge_pdfs(files) == Returned(MergeLoop(files, 1, <<>>))

---------------------------------------------------------------------------
(* split_pdf *)

\* base = original_filename.rsplit('.', 1)[0] if '.' in original_filename ...
BaseName(filename) ==
    IF contains(filename, ".") THEN rsplit1head(filename, ".") ELSE filename

\* variant of OutName: the range form of the name for every segment
OutName_AlwaysRange(base, start, end) ==
    base \o <<"_", "p">> \o str(start) \o <<"-">> \o str(end)
         \o <<".", "p", "d", "f">>

OutName(base, start, end) ==
    IF start = end
    THEN base \o <<"_", "p">> \o str(start) \o <<".", "p", "d", "f">>
    ELSE base \o <<"_", "p">> \o str(start) \o <<"-">> \o str(end)
              \o <<".", "p", "d", "f">>

\* the loop `for idx, (start, end) in enumerate(segments, 1)`
RECURSIVE SplitLoop(_, _, _, _, _)
SplitLoop(pages, segments, idx, base, created_files) ==
    IF idx > Len(segments) THEN created_files
    ELSE LET start == segments[idx][1]
             end   == segments[idx][2]
             out   == [name |-> OutName(base, start, end),
                       pages |-> AddPages(pages, start, end)]
         IN  SplitLoop(pages, segments, idx + 1, base, Append(created_files, out))

\* the segments of the tokens that precede the first rejected one
RECURSIVE GoodPrefix(_, _, _)
GoodPrefix(tokens, i, total) ==
    IF i > Len(tokens) \/ ParseToken(tokens[i], total).raised THEN <<>>
    ELSE <<ParseToken(tokens[i], total).value>> \o GoodPrefix(tokens, i + 1, total)

\* variant of split_pdf: best effort, the files of the segments parsed before
\* the error are handed back with it
split_pdf_BestEffort(n, text, filename) ==
    LET parsed == _parse_segments(text, n)
        segments == IF parsed.raised
                    THEN GoodPrefix(Tokens(replace(text, " ")), 1, n)
                    ELSE parsed.value
        created_files == SplitLoop(ReaderPages(1, n), segments, 1,
                                   BaseName(filename), <<>>)
    IN  IF parsed.raised THEN [parsed EXCEPT !.value = created_files]
        ELSE Returned(created_files)

split_pdf(n, text, filename) ==
    LET parsed == _parse_segments(text, n)
    IN  IF parsed.raised THEN parsed
        ELSE Returned(SplitLoop(ReaderPages(1, n), parsed.value, 1,
                                BaseName(filename), <<>>))

---------------------------------------------------------------------------
(* extract_pages *)

\* pages = [p.strip() for p in pages_text.split(",") if p.strip()]
PageTokens(text) ==
    LET pieces == split(text, ",")
        kept   == SelectSeq(pieces, LAMBDA p : Len(strip(p)) > 0)
    IN  [i \in 1..Len(kept) |-> strip(kept[i])]

\* the loop `for p in pages` from index i on, writer holding the pages so far
RECURSIVE ExtractLoop(_, _, _, _)
ExtractLoop(pages, i, writer, total) ==
    IF i > Len(pages) THEN Returned(writer)
    ELSE LET p == pages[i]
         IN  IF ~isdigit(p) THEN Raised(MalformedPageNumber, p)
             ELSE IF int_raises(p) THEN Raised(InvalidLiteral, p)
             ELSE IF int(p) < 1 \/ int(p) > total
             THEN Raised(PageOutOfBounds, p)
             ELSE ExtractLoop(pages, i + 1,
                              Append(writer, ReaderPages(1, total)[int(p)]),
                              total)

\* variant of extract_pages: repeated entries of the page list collapsed
extract_pages_Deduplicated(n, text) ==
    ExtractLoop(DropRepeats(PageTokens(text)), 1, <<>>, n)

extract_pages(n, text) == ExtractLoop(PageTokens(text), 1, <<>>, n)

---------------------------------------------------------------------------
(* Specification of the parser alone *)

InitParse ==
    /\ spec_text \in Strings(MaxLen)
    /\ total_pages \in 0..MaxPages
    /\ original_filename = <<>>
    /\ uploaded_files = <<>>
    /\ pc = "idle"
    /\ result = None

ParseSegments ==
    /\ pc = "idle"
    /\ pc' = "parsed"
    /\ result' = _parse_segments(spec_text, total_pages)
    /\ UNCHANGED <<spec_text, total_pages, original_filename, uploaded_files>>

Spec == InitParse /\ [][ParseSegments]_vars

---------------------------------------------------------------------------
(* Specification of split_pdf: an uploaded file, its name and the text of  *)
(* the range field are given; split_pdf is called on them                  *)

InitSplit ==
    /\ spec_text \in Strings(MaxLen)
    /\ total_pages \in 0..MaxPages
    /\ original_filename \in Filenames
    /\ uploaded_files = <<total_pages>>
    /\ pc = "idle"
    /\ result = None

SplitPdf ==
    /\ pc = "idle"
    /\ pc' = "split"
    /\ result' = split_pdf(uploaded_files[1], spec_text, original_filename)
    /\ UNCHANGED <<spec_text, total_pages, original_filename, uploaded_files>>

SplitSpec == InitSplit /\ [][SplitPdf]_vars

---------------------------------------------------------------------------
(* Specification of the two operations that read a text against one        *)
(* uploaded file: the same file and text go to split_pdf or to             *)
(* extract_pages.  The file's name, which only names the outputs of        *)
(* split_pdf, is held fixed here and varies in SplitSpec.                  *)

InitOps ==
    /\ spec_text \in Strings(MaxLen)
    /\ total_pages \in 0..MaxPages
    /\ original_filename = <<"a", ".", "a">>
    /\ uploaded_files = <<total_pages>>
    /\ pc = "idle"
    /\ result = None

ExtractPages ==
    /\ pc = "idle"
    /\ pc' = "extracted"
    /\ result' = extract_pages(uploaded_files[1], spec_text)
    /\ UNCHANGED <<spec_text, total_pages, original_filename, uploaded_files>>

NextOps == SplitPdf \/ ExtractPages

OpsSpec == InitOps /\ [][NextOps]_vars

---------------------------------------------------------------------------
(* Specification of merge_pdfs: a list of uploaded files *)

InitMerge ==
    /\ spec_text = <<>>
    /\ total_pages = 0
    /\ original_filename = <<>>
    /\ uploaded_files \in UNION {[1..k -> 0..MaxPages] : k \in 0..MaxFiles}
    /\ pc = "idle"
    /\ result = None

MergePdfs ==
    /\ pc = "idle"
    /\ pc' = "merged"
    /\ result' = merge_pdfs(uploaded_files)
    /\ UNCHANGED <<spec_text, total_pages, original_filename, uploaded_files>>

MergeSpec == InitMerge /\ [][MergePdfs]_vars


---------------------------------------------------------------------------
(* Reference notions the properties are stated with.  They describe the    *)
(* text of an input field by positions, not by the loops of the code.      *)

\* s with every whitespace character removed
NoWhitespace(s) == SelectSeq(s, LAMBDA c : c \notin Whitespace)

\* s with every space character removed
NoSpaces(s) == SelectSeq(s, LAMBDA c : c # " ")

\* the positions delimiting the comma-separated pieces of s
Cuts(s) == {0} \cup {i \in 1..Len(s) : s[i] = ","} \cup {Len(s) + 1}

NextCut(s, b) == CHOOSE c \in Cuts(s) : c > b /\ \A d \in Cuts(s) : d > b => c <= d

\* the piece of s that starts after cut b
PieceAt(s, b) == SubSeq(s, b + 1, NextCut(s, b) - 1)

\* the cuts after which a non-empty token starts
TokenCuts(s) == {b \in Cuts(s) : b <= Len(s) /\ Len(PieceAt(s, b)) > 0}

NumTokens(s) == Cardinality(TokenCuts(s))

\* the k-th non-empty comma-separated token of s, from the left
NthToken(s, k) ==
    PieceAt(s, CHOOSE b \in TokenCuts(s) :
                   Cardinality({c \in TokenCuts(s) : c < b}) = k - 1)

\* a non-empty sequence of decimal digits
DigitString(t) == t # <<>> /\ \A i \in 1..Len(t) : t[i] \in DecimalDigits

FirstDash(t) == CHOOSE i \in 1..Len(t) : t[i] = "-" /\ \A j \in 1..(i - 1) : t[j] # "-"

LeftOf(t) == SubSeq(t, 1, FirstDash(t) - 1)

RightOf(t) == SubSeq(t, FirstDash(t) + 1, Len(t))

\* the segment a well-formed token denotes: n gives (n,n), a-b gives (a,b)
SegmentOf(t) ==
    IF contains(t, "-") THEN <<int(LeftOf(t)), int(RightOf(t))>>
    ELSE <<int(t), int(t)>>

\* the error kind of a token against T pages, "" for a good token
KindOf(t, T) ==
    IF contains(t, "-") /\ (~DigitString(LeftOf(t)) \/ ~DigitString(RightOf(t)))
    THEN MalformedRange
    ELSE IF ~contains(t, "-") /\ ~DigitString(t) THEN MalformedPageNumber
    ELSE IF SegmentOf(t)[1] < 1 \/ SegmentOf(t)[2] < 1
            \/ SegmentOf(t)[2] < SegmentOf(t)[1]
    THEN InvalidSegment
    ELSE IF SegmentOf(t)[2] > T THEN OutOfBounds
    ELSE ""

BadTokens(s, T) == {k \in 1..NumTokens(s) : KindOf(NthToken(s, k), T) # ""}

LeftmostBad(s, T) == CHOOSE k \in BadTokens(s, T) : \A j \in BadTokens(s, T) : k <= j

\* the cuts of a page list after which a token with something in it starts
PageCuts(s) == {b \in Cuts(s) : b <= Len(s) /\ NoWhitespace(PieceAt(s, b)) # <<>>}

NumPages(s) == Cardinality(PageCuts(s))

\* the k-th listed page of a page list, surrounding whitespace dropped
NthPage(s, k) ==
    strip(PieceAt(s, CHOOSE b \in PageCuts(s) :
                         Cardinality({c \in PageCuts(s) : c < b}) = k - 1))

BadPages(s, T) ==
    {k \in 1..NumPages(s) :
        ~DigitString(NthPage(s, k)) \/ int(NthPage(s, k)) < 1
                                    \/ int(NthPage(s, k)) > T}

LeftmostBadPage(s, T) == CHOOSE k \in BadPages(s, T) : \A j \in BadPages(s, T) : k <= j

\* the source pages first, ..., last of the uploaded file
SourcePages(first, last) == [i \in 1..(last - first + 1) |-> <<1, first + i - 1>>]

\* the file name with only its final extension removed
WithoutExtension(name) ==
    IF \A i \in 1..Len(name) : name[i] # "." THEN name
    ELSE SubSeq(name, 1, (CHOOSE i \in 1..Len(name) :
                              name[i] = "." /\ \A j \in (i + 1)..Len(name) : name[j] # ".") - 1)

RECURSIVE Sum(_)
Sum(counts) ==
    IF Len(counts) = 0 THEN 0
    ELSE counts[1] + Sum(SubSeq(counts, 2, Len(counts)))

---------------------------------------------------------------------------
(* Properties *)

\* C1: an accepted spec yields exactly one segment per non-empty
\* comma-separated token, in token order; a bare number n gives (n,n), a
\* token a-b gives (a,b); empty tokens are skipped, duplicates and overlaps
\* are kept.
C1_OneSegmentPerToken ==
    (pc = "parsed" /\ ~result.raised) =>
        LET s == NoWhitespace(spec_text)
        IN  /\ Len(result.value) = NumTokens(s)
            /\ \A k \in 1..NumTokens(s) :
                   result.value[k] = SegmentOf(NthToken(s, k))

\* "1,,2" against 2 pages is accepted as [(1,1),(2,2)]
C1_Witness ==
    /\ pc = "parsed"
    /\ spec_text = <<"1", ",", ",", "2">>
    /\ ~result.raised
    /\ result.value = << <<1, 1>>, <<2, 2>> >>

\* C2: every segment (start, end) of an accepted spec satisfies
\* 1 <= start <= end <= total_pages.
C2_SegmentsInBounds ==
    (pc = "parsed" /\ ~result.raised) =>
        \A k \in 1..Len(result.value) :
            /\ 1 <= result.value[k][1]
            /\ result.value[k][1] <= result.value[k][2]
            /\ result.value[k][2] <= total_pages

\* "1-2" against 2 pages is accepted as [(1,2)]
C2_Witness ==
    /\ pc = "parsed"
    /\ spec_text = <<"1", "-", "2">>
    /\ total_pages = 2
    /\ ~result.raised
    /\ result.value = << <<1, 2>> >>

\* C3: a spec with a bad token fails with the error of its leftmost bad
\* token, whose kind is decided in the order MalformedRange /
\* MalformedPageNumber, then InvalidSegment, then OutOfBounds.  The tokens
\* are those of the text once its spaces are removed.
C3_LeftmostBadToken ==
    LET s == NoSpaces(spec_text)
    IN  (pc = "parsed" /\ BadTokens(s, total_pages) # {}) =>
            LET t == NthToken(s, LeftmostBad(s, total_pages))
            IN  /\ result.raised
                /\ result.error = KindOf(t, total_pages)
                /\ result.token = t

\* The same statement for the texts in which every digit character is a
\* decimal digit: there the error is that of the leftmost bad token, in the
\* stated order of kinds.
C3_OnDecimalTexts ==
    LET s == NoSpaces(spec_text)
    IN  (/\ pc = "parsed"
         /\ \A i \in 1..Len(s) : s[i] \in Digits => s[i] \in DecimalDigits
         /\ BadTokens(s, total_pages) # {}) =>
            LET t == NthToken(s, LeftmostBad(s, total_pages))
            IN  /\ result.raised
                /\ result.error = KindOf(t, total_pages)
                /\ result.token = t

\* C4: whitespace of any kind is stripped before tokenising: a spec made
\* only of whitespace fails with EmptySpec, and the result of any spec is
\* that of the spec without its whitespace.
C4_WhitespaceStripped ==
    pc = "parsed" =>
        /\ NoWhitespace(spec_text) = <<>> =>
               (result.raised /\ result.error = EmptySpec)
        /\ result = _parse_segments(NoWhitespace(spec_text), total_pages)

\* C5: the names of the outputs split_pdf returns are pairwise distinct.
C5_NamesDistinct ==
    (pc = "split" /\ ~result.raised) =>
        \A i, j \in 1..Len(result.value) :
            i # j => result.value[i].name # result.value[j].name

\* C6: no output without pages: extract_pages fails on a page list with no
\* non-empty token, and split_pdf returns neither an empty list of outputs
\* nor an output with no pages.
C6_NoEmptyOutput ==
    /\ (pc = "extracted" /\ NumPages(spec_text) = 0) => result.raised
    /\ (pc = "split" /\ ~result.raised) =>
           /\ result.value # <<>>
           /\ \A i \in 1..Len(result.value) : result.value[i].pages # <<>>

\* C7: an accepted page list yields exactly the listed pages in the order
\* listed, duplicates and out-of-order entries kept, each within 1..T; a
\* list whose leftmost rejected entry is a number outside 1..T fails with
\* PageOutOfBounds; a list with a range token is rejected.
C7_ExtractListedPages ==
    pc = "extracted" =>
        LET s == spec_text
            T == total_pages
        IN  /\ ~result.raised =>
                   /\ Len(result.value) = NumPages(s)
                   /\ \A k \in 1..NumPages(s) :
                          /\ DigitString(NthPage(s, k))
                          /\ int(NthPage(s, k)) \in 1..T
                          /\ result.value[k] = <<1, int(NthPage(s, k))>>
            /\ BadPages(s, T) # {} =>
                   /\ result.raised
                   /\ result.token = NthPage(s, LeftmostBadPage(s, T))
                   /\ DigitString(result.token) =>
                          result.error = PageOutOfBounds
            /\ (\E k \in 1..NumPages(s) : contains(NthPage(s, k), "-")) =>
                   result.raised

\* "2,1" on a 2-page file gives source pages [2,1]
C7_Witness ==
    /\ pc = "extracted"
    /\ spec_text = <<"2", ",", "1">>
    /\ ~result.raised
    /\ result.value = << <<1, 2>>, <<1, 1>> >>

\* C8: no partial results: when any token of the spec (split_pdf) or of the
\* page list (extract_pages) is rejected, wherever it sits, the call returns
\* no output at all.
C8_NoPartialResults ==
    /\ (pc = "split" /\ BadTokens(NoSpaces(spec_text), total_pages) # {}) =>
           (result.raised /\ result.value = None)
    /\ (pc = "extracted" /\ BadPages(spec_text, total_pages) # {}) =>
           (result.raised /\ result.value = None)

\* "1,0" on a file with pages: the good token "1" precedes the bad one
C8_Witness ==
    /\ pc = "split"
    /\ spec_text = <<"1", ",", "0">>
    /\ total_pages >= 1
    /\ result.raised
    /\ result.value = None

\* C9 as stated: one output per segment, in order, holding source pages
\* start..end, named <base>_p<start> (start = end) or <base>_p<start>-<end>.
C9_NamesWithoutSuffix ==
    (pc = "split" /\ ~result.raised) =>
        LET s == NoSpaces(spec_text)
            base == WithoutExtension(original_filename)
        IN  /\ Len(result.value) = NumTokens(s)
            /\ \A k \in 1..NumTokens(s) :
                   LET seg == SegmentOf(NthToken(s, k))
                   IN  /\ result.value[k].pages = SourcePages(seg[1], seg[2])
                       /\ result.value[k].name =
                              IF seg[1] = seg[2]
                              THEN base \o <<"_", "p">> \o str(seg[1])
                              ELSE base \o <<"_", "p">> \o str(seg[1])
                                        \o <<"-">> \o str(seg[2])

\* C9 amended: the names carry the suffix ".pdf".
C9_SplitOutputs ==
    (pc = "split" /\ ~result.raised) =>
        LET s == NoSpaces(spec_text)
            base == WithoutExtension(original_filename)
        IN  /\ Len(result.value) = NumTokens(s)
            /\ \A k \in 1..NumTokens(s) :
                   LET seg == SegmentOf(NthToken(s, k))
                   IN  /\ result.value[k].pages = SourcePages(seg[1], seg[2])
                       /\ Len(result.value[k].pages) = seg[2] - seg[1] + 1
                       /\ result.value[k].name =
                              IF seg[1] = seg[2]
                              THEN base \o <<"_", "p">> \o str(seg[1])
                                        \o <<".", "p", "d", "f">>
                              ELSE base \o <<"_", "p">> \o str(seg[1])
                                        \o <<"-">> \o str(seg[2])
                                        \o <<".", "p", "d", "f">>

\* "1,2" on the 2-page file "a.a.a": two one-page outputs a.a_p1.pdf, a.a_p2.pdf
C9_Witness ==
    /\ pc = "split"
    /\ spec_text = <<"1", ",", "2">>
    /\ total_pages = 2
    /\ original_filename = <<"a", ".", "a", ".", "a">>
    /\ ~result.raised
    /\ result.value =
         << [name |-> <<"a", ".", "a", "_", "p", "1", ".", "p", "d", "f">>,
             pages |-> << <<1, 1>> >>],
            [name |-> <<"a", ".", "a", "_", "p", "2", ".", "p", "d", "f">>,
             pages |-> << <<1, 2>> >>] >>

\* C10: merge_pdfs returns every page of every file exactly once, files in
\* upload order and the pages of a file in its own order; for two files of
\* A and B pages that is A+B pages, the first file's before the second's.
C10_MergeConcatenates ==
    pc = "merged" =>
        /\ ~result.raised
        /\ Len(result.value) = Sum(uploaded_files)
        /\ \A p \in 1..Len(result.value) :
               /\ result.value[p][1] \in 1..Len(uploaded_files)
               /\ result.value[p][2] \in 1..uploaded_files[result.value[p][1]]
        /\ \A p, q \in 1..Len(result.value) :
               p < q =>
                   \/ result.value[p][1] < result.value[q][1]
                   \/ /\ result.value[p][1] = result.value[q][1]
                      /\ result.value[p][2] < result.value[q][2]

\* files of 2 and 1 pages merge into 3 pages, the first file's pages first
C10_Witness ==
    /\ pc = "merged"
    /\ uploaded_files = <<2, 1>>
    /\ result.value = << <<1, 1>>, <<1, 2>>, <<2, 1>> >>

=============================================================================
